---- MODULE Spec2Model ----
(***************************************************************************)
(* Model of tool-sandbox-policy: Policy, PolicyEngine (src/src/policy.py)  *)
(* and the command-line shell (src/src/cli.py).                            *)
(*                                                                         *)
(* A Python str is a sequence of one-character strings, so that prefix,    *)
(* suffix, split and strip are computed character by character.            *)
(***************************************************************************)
EXTENDS Integers, Sequences, FiniteSets, TLC

VARIABLES
    policy,     \* the Policy held by the engine / the Policy under construction
    policy0,    \* the Policy as it was handed to PolicyEngine.__init__
    files,      \* the file system: file name -> content
    data,       \* the dict handed to Policy.from_dict
    op,         \* name of the last operation that returned ("none" before any)
    resource,   \* the path / domain / target argument of the operation
    pattern,    \* the pattern argument of a matcher call
    result      \* what the last operation returned

vars == <<policy, policy0, files, data, op, resource, pattern, result>>

---------------------------------------------------------------------------
(* Bounds *)

MaxPathLen == 4      \* longest path handed to _match_file_pattern
MaxPatLen == 4       \* longest path pattern handed to _match_file_pattern

MaxDomainLen == 3    \* longest domain handed to _match_domain
MaxDomPatLen == 3    \* longest domain pattern handed to _match_domain

MaxPatterns == 2     \* most patterns one Policy holds, both lists together
EngPatLen == 1       \* longest pattern in a Policy handed to an engine
EngPathLen == 1      \* longest path handed to check_file_access
EngTargetLen == 2    \* longest target handed to check_network_access

PathChars == {"a", "/", "*", "?"}
EngPathChars == {"a", "/"}
EngFilePatChars == {"a", "*"}
EngTargetChars == {"a", ":"}
EngDomPatChars == {"a", ".", "*"}
DomainChars == {"a", ".", "*", ":", "9", "1", "-"}

Strings(chars, n) == UNION {[1..k -> chars] : k \in 0..n}

---------------------------------------------------------------------------
(* Python str methods *)

\* s.startswith(p)
StartsWith(s, p) == Len(p) <= Len(s) /\ SubSeq(s, 1, Len(p)) = p

\* s.endswith(p)
EndsWith(s, p) == Len(p) <= Len(s) /\ SubSeq(s, Len(s) - Len(p) + 1, Len(s)) = p

\* sub in s
Contains(s, sub) ==
    \E i \in 1..(Len(s) - Len(sub) + 1) : SubSeq(s, i, i + Len(sub) - 1) = sub

\* s.rstrip(chars): drop the longest tail made only of characters of chars
RECURSIVE RStrip(_, _)
RStrip(s, chars) ==
    IF s # <<>> /\ s[Len(s)] \in chars
    THEN RStrip(SubSeq(s, 1, Len(s) - 1), chars)
    ELSE s

\* s.split(sep)[0]: the text before the leftmost occurrence of sep, or all
\* of s when sep does not occur
RECURSIVE SplitFirstFrom(_, _, _)
SplitFirstFrom(s, sep, i) ==
    IF i + Len(sep) - 1 > Len(s) THEN s
    ELSE IF SubSeq(s, i, i + Len(sep) - 1) = sep THEN SubSeq(s, 1, i - 1)
    ELSE SplitFirstFrom(s, sep, i + 1)

SplitFirst(s, sep) == SplitFirstFrom(s, sep, 1)

\* fnmatch.fnmatch(name, pat) on a POSIX build (os.path.normcase is the
\* identity there): '*' matches any run of characters, '/' included, '?'
\* matches exactly one character, every other character matches itself.
\* The alphabets of this model have no '[', so no character class arises.
RECURSIVE fnmatch(_, _)
fnmatch(name, pat) ==
    IF pat = <<>> THEN name = <<>>
    ELSE IF Head(pat) = "*"
         THEN fnmatch(name, Tail(pat))
              \/ (name # <<>> /\ fnmatch(Tail(name), pat))
    ELSE IF Head(pat) = "?"
         THEN name # <<>> /\ fnmatch(Tail(name), Tail(pat))
    ELSE name # <<>> /\ Head(name) = Head(pat)
         /\ fnmatch(Tail(name), Tail(pat))

---------------------------------------------------------------------------
(* PolicyEngine._match_file_pattern *)

\* faulty variant: the trailing '/' is kept in the prefix of a single-star pattern
_match_file_pattern_keep_slash(path, pat) ==
    IF Contains(pat, <<"*", "*">>)
    THEN StartsWith(path, SplitFirst(pat, <<"*", "*">>)) \/ fnmatch(path, pat)
    ELSE IF Contains(pat, <<"*">>)
    THEN StartsWith(path, RStrip(pat, {"*"}))
    ELSE fnmatch(path, pat)

\* faulty variant: a '**' pattern is a prefix test only, without the glob fallback
_match_file_pattern_prefix_only(path, pat) ==
    IF Contains(pat, <<"*", "*">>)
    THEN StartsWith(path, SplitFirst(pat, <<"*", "*">>))
    ELSE IF Contains(pat, <<"*">>)
    THEN StartsWith(path, RStrip(RStrip(pat, {"*"}), {"/"}))
    ELSE fnmatch(path, pat)

_match_file_pattern(path, pat) ==
    IF Contains(pat, <<"*", "*">>)
    THEN StartsWith(path, SplitFirst(pat, <<"*", "*">>)) \/ fnmatch(path, pat)
    ELSE IF Contains(pat, <<"*">>)
    THEN StartsWith(path, RStrip(RStrip(pat, {"*"}), {"/"}))
    ELSE fnmatch(path, pat)

---------------------------------------------------------------------------
(* PolicyEngine._match_domain *)

\* pattern.rstrip(":").rstrip("0-9"): the argument of the second rstrip is a
\* set of characters, so it removes trailing '0', '-' and '9'
_match_domain(domain, pat) ==
    LET base_pattern == RStrip(RStrip(pat, {":"}), {"0", "-", "9"})
    IN  IF StartsWith(pat, <<"*", ".">>)
        THEN LET base == SubSeq(base_pattern, 3, Len(base_pattern))
             IN  domain = base \/ EndsWith(domain, <<".">> \o base)
        ELSE domain = base_pattern
             \/ StartsWith(domain, base_pattern \o <<":">>)

---------------------------------------------------------------------------
(* Python values: a value carries the name of its type *)

\* Fields and parameters annotated str or bool are TLA+ strings and booleans
\* (a name is not taken apart, so it is not spelled as characters).  A value
\* is tagged where its type is decided at run time: an Optional[List[str]]
\* argument and every value of a record read from JSON.
\* An int is kept as its literal text.
Str(s) == [type |-> "str", val |-> s]
PyInt(n) == [type |-> "int", val |-> n]
Bool(b) == [type |-> "bool", val |-> b]
List(l) == [type |-> "list", val |-> l]
None == [type |-> "NoneType"]

\* x or []  for x a list or None
OrEmptyList(x) == IF x.type = "list" /\ x.val # <<>> THEN x.val ELSE <<>>

---------------------------------------------------------------------------
(* Policy *)

Policy__init__(name, allowed_file_paths, allowed_domains, strict) ==
    [name |-> name,
     allowed_file_paths |-> OrEmptyList(allowed_file_paths),
     allowed_domains |-> OrEmptyList(allowed_domains),
     strict |-> strict]

\* data.get(key, default) on a dict, a function from its keys to values
Get(d, key, default) == IF key \in DOMAIN d THEN d[key] ELSE default

\* faulty variant: the record is written without its strict entry
to_dict_no_strict(self) ==
    [k \in {"name", "allowed_file_paths", "allowed_domains"} |->
        CASE k = "name" -> Str(self.name)
          [] k = "allowed_file_paths" -> List(self.allowed_file_paths)
          [] k = "allowed_domains" -> List(self.allowed_domains)]

to_dict(self) ==
    [name |-> Str(self.name),
     allowed_file_paths |-> List(self.allowed_file_paths),
     allowed_domains |-> List(self.allowed_domains),
     strict |-> Bool(self.strict)]

\* what a classmethod or a command gives: a value, or the exception raised
Returned(value) == [ok |-> TRUE, value |-> value]
Raised(error, message) == [ok |-> FALSE, error |-> error, message |-> message]

\* faulty variant: the type of name is not looked at
from_dict_unchecked(d) ==
    LET name == Get(d, "name", Str("default"))
    IN  Returned(Policy__init__(
                IF name.type = "str" THEN name.val ELSE "default",
                Get(d, "allowed_file_paths", List(<<>>)),
                Get(d, "allowed_domains", List(<<>>)),
                Get(d, "strict", Bool(FALSE)).val))

\* the message is the f-string's text and the type name put into it
from_dict(d) ==
    LET name == Get(d, "name", Str("default"))
    IN  IF name.type # "str"
        THEN Raised("ValueError",
                    <<"Policy name must be a string, got ", name.type>>)
        ELSE Returned(Policy__init__(
                name.val,
                Get(d, "allowed_file_paths", List(<<>>)),
                Get(d, "allowed_domains", List(<<>>)),
                Get(d, "strict", Bool(FALSE)).val))

\* json.dump of a dict: each Python value becomes the JSON value of its type
JsonOf(v) ==
    CASE v.type = "str" -> [json |-> "string", val |-> v.val]
      [] v.type = "int" -> [json |-> "number", val |-> v.val]
      [] v.type = "bool" -> [json |-> IF v.val THEN "true" ELSE "false"]
      [] v.type = "list" -> [json |-> "array", val |-> v.val]
      [] v.type = "NoneType" -> [json |-> "null"]

json_dump(d) == [k \in DOMAIN d |-> JsonOf(d[k])]

\* json.load of a JSON object: each JSON value becomes the Python value
PyOf(j) ==
    CASE j.json = "string" -> Str(j.val)
      [] j.json = "number" -> PyInt(j.val)
      [] j.json = "true" -> Bool(TRUE)
      [] j.json = "false" -> Bool(FALSE)
      [] j.json = "array" -> List(j.val)
      [] j.json = "null" -> None

json_load(doc) == [k \in DOMAIN doc |-> PyOf(doc[k])]

\* what a file name leads to: no file, text that is not JSON, a JSON value
\* that is not an object, or a JSON object
Missing == [kind |-> "missing"]
NotJson == [kind |-> "not_json"]
JsonArray == [kind |-> "json_array"]
JsonObject(doc) == [kind |-> "json_object", doc |-> doc]

\* Policy.save: the file system after self.save(path)
save(self, path, fs) ==
    [fs EXCEPT ![path] = JsonObject(json_dump(to_dict(self)))]

\* Policy.load: open raises for a missing file, json.load for text that is
\* not JSON, data.get for a JSON value that is not an object
load(path, fs) ==
    CASE fs[path].kind = "missing" -> Raised("FileNotFoundError", <<>>)
      [] fs[path].kind = "not_json" -> Raised("JSONDecodeError", <<>>)
      [] fs[path].kind = "json_array" -> Raised("AttributeError", <<>>)
      [] fs[path].kind = "json_object" -> from_dict(json_load(fs[path].doc))

---------------------------------------------------------------------------
(* PolicyEngine.check_file_access / check_network_access                   *)
(* A method is given as the pair of what it returns (ret) and the engine's *)
(* policy after the call (self).                                           *)

PolicyViolation(allowed, resource_type, resource_path, reason) ==
    [allowed |-> allowed, resource_type |-> resource_type,
     resource_path |-> resource_path, reason |-> reason]

\* the for loop of check_file_access, from the i-th pattern on
RECURSIVE FileLoop(_, _, _)
FileLoop(self, path, i) ==
    IF i > Len(self.allowed_file_paths)
    THEN PolicyViolation(FALSE, "file", path, "Path not allowed")
    ELSE IF _match_file_pattern(path, self.allowed_file_paths[i])
    THEN PolicyViolation(TRUE, "file", path, "")
    ELSE FileLoop(self, path, i + 1)

\* faulty variant: the loop returns on the first pattern, matching or not
check_file_access_first_only(self, path) ==
    [self |-> self,
     ret |-> IF self.allowed_file_paths = <<>>
             THEN PolicyViolation(FALSE, "file", path,
                                  "No file paths allowed in policy")
             ELSE IF _match_file_pattern(path, self.allowed_file_paths[1])
             THEN PolicyViolation(TRUE, "file", path, "")
             ELSE PolicyViolation(FALSE, "file", path, "Path not allowed")]

\* faulty variant: a strict policy allows a path only when a pattern equals it
check_file_access_strict_exact(self, path) ==
    [self |-> self,
     ret |-> IF self.allowed_file_paths = <<>>
             THEN PolicyViolation(FALSE, "file", path,
                                  "No file paths allowed in policy")
             ELSE IF self.strict
             THEN IF \E i \in 1..Len(self.allowed_file_paths) :
                        self.allowed_file_paths[i] = path
                  THEN PolicyViolation(TRUE, "file", path, "")
                  ELSE PolicyViolation(FALSE, "file", path, "Path not allowed")
             ELSE FileLoop(self, path, 1)]

\* faulty variant: a grant is used up, the first pattern is dropped on an allow
check_file_access_consume(self, path) ==
    LET ret == IF self.allowed_file_paths = <<>>
               THEN PolicyViolation(FALSE, "file", path,
                                    "No file paths allowed in policy")
               ELSE FileLoop(self, path, 1)
    IN  [self |-> IF ret.allowed
                  THEN [self EXCEPT !.allowed_file_paths = Tail(@)]
                  ELSE self,
         ret |-> ret]

check_file_access(self, path) ==
    [self |-> self,
     ret |-> IF self.allowed_file_paths = <<>>
             THEN PolicyViolation(FALSE, "file", path,
                                  "No file paths allowed in policy")
             ELSE FileLoop(self, path, 1)]

\* the for loop of check_network_access, from the i-th pattern on
RECURSIVE DomainLoop(_, _, _, _)
DomainLoop(self, target, domain, i) ==
    IF i > Len(self.allowed_domains)
    THEN PolicyViolation(FALSE, "network", target, "Domain not allowed")
    ELSE IF _match_domain(domain, self.allowed_domains[i])
    THEN PolicyViolation(TRUE, "network", target, "")
    ELSE DomainLoop(self, target, domain, i + 1)

\* target.split(":")[-1]
RECURSIVE SplitLast(_)
SplitLast(s) ==
    IF s = <<>> \/ s[Len(s)] = ":" THEN <<>>
    ELSE SplitLast(SubSeq(s, 1, Len(s) - 1)) \o <<s[Len(s)]>>

\* faulty variant: the last piece of the split is matched, not the first
check_network_access_last_piece(self, target) ==
    [self |-> self,
     ret |-> IF self.allowed_domains = <<>>
             THEN PolicyViolation(FALSE, "network", target,
                                  "No domains allowed in policy")
             ELSE DomainLoop(self, target, SplitLast(target), 1)]

\* faulty variant: the loop does not return on a match, the last pattern of
\* the list decides
check_network_access_last_wins(self, target) ==
    [self |-> self,
     ret |-> IF self.allowed_domains = <<>>
             THEN PolicyViolation(FALSE, "network", target,
                                  "No domains allowed in policy")
             ELSE IF _match_domain(SplitFirst(target, <<":">>),
                                   self.allowed_domains[Len(self.allowed_domains)])
             THEN PolicyViolation(TRUE, "network", target, "")
             ELSE PolicyViolation(FALSE, "network", target,
                                  "Domain not allowed")]

check_network_access(self, target) ==
    [self |-> self,
     ret |-> IF self.allowed_domains = <<>>
             THEN PolicyViolation(FALSE, "network", target,
                                  "No domains allowed in policy")
             ELSE DomainLoop(self, target, SplitFirst(target, <<":">>), 1)]

---------------------------------------------------------------------------
(* cli.py: a command is given as the pair of the file system after it (fs) *)
(* and how it ends (out): an exit code with what was printed, or the       *)
(* exception that leaves main                                              *)

Exit(code, stream, text) ==
    [kind |-> "exit", code |-> code, stream |-> stream, text |-> text]
Uncaught(error) == [kind |-> "uncaught", error |-> error]

cmd_init(args, fs) ==
    LET new == Policy__init__(args.name,
                              List(OrEmptyList(args.allowed_paths)),
                              List(OrEmptyList(args.allowed_domains)),
                              FALSE)
    IN  [fs |-> save(new, args.output, fs),
         out |-> Exit(0, "stdout", <<"Created policy file: ">>)]

\* Policy.load is called outside any try: what it raises leaves cmd_check
cmd_check(args, fs) ==
    LET loaded == load(args.policy, fs)
        checked == IF args.resource_type = "file"
                   THEN check_file_access(loaded.value, args.resource).ret
                   ELSE check_network_access(loaded.value, args.resource).ret
    IN  [fs |-> fs,
         out |-> IF ~loaded.ok THEN Uncaught(loaded.error)
                 ELSE IF args.resource_type \notin {"file", "network"}
                 THEN Exit(1, "stderr", <<"Unknown resource type: ">>)
                 ELSE IF checked.allowed
                 THEN Exit(0, "stdout", <<"ALLOWED: ">>)
                 ELSE Exit(1, "stdout", <<"DENIED: ", checked.reason>>)]

\* the one command that loads inside try / except Exception
cmd_validate(args, fs) ==
    LET loaded == load(args.policy, fs)
    IN  [fs |-> fs,
         out |-> IF loaded.ok
                 THEN Exit(0, "stdout", <<"Valid policy: ", loaded.value.name>>)
                 ELSE Exit(1, "stderr", <<"Invalid policy: ", loaded.error>>)]

\* Policy.load is called outside any try: what it raises leaves cmd_list
cmd_list(args, fs) ==
    LET loaded == load(args.policy, fs)
    IN  [fs |-> fs,
         out |-> IF ~loaded.ok THEN Uncaught(loaded.error)
                 ELSE Exit(0, "stdout", <<"Policy: ", loaded.value.name>>)]

\* main: return args.func(args), for arguments argparse accepts
main(args, fs) ==
    CASE args.command = "init" -> cmd_init(args, fs)
      [] args.command = "check" -> cmd_check(args, fs)
      [] args.command = "validate" -> cmd_validate(args, fs)
      [] args.command = "list" -> cmd_list(args, fs)

---------------------------------------------------------------------------
(* Strings of the documented examples *)

S_home_user_star ==
    <<"/", "h", "o", "m", "e", "/", "u", "s", "e", "r", "/", "*">>
S_home_user_dstar ==
    <<"/", "h", "o", "m", "e", "/", "u", "s", "e", "r", "/", "*", "*">>
S_home_user_dir ==
    <<"/", "h", "o", "m", "e", "/", "u", "s", "e", "r", "/">>
S_home_user_file ==
    <<"/", "h", "o", "m", "e", "/", "u", "s", "e", "r", "/", "f", "i", "l", "e", ".", "t", "x", "t">>
S_home_user_subdir ==
    <<"/", "h", "o", "m", "e", "/", "u", "s", "e", "r", "/", "s", "u", "b", "d", "i", "r">>
S_home_user_subdir_file ==
    <<"/", "h", "o", "m", "e", "/", "u", "s", "e", "r", "/", "s", "u", "b", "d", "i", "r", "/", "f", "i", "l", "e", ".", "t", "x", "t">>
S_home_other_file ==
    <<"/", "h", "o", "m", "e", "/", "o", "t", "h", "e", "r", "/", "f", "i", "l", "e", ".", "t", "x", "t">>
S_star_google ==
    <<"*", ".", "g", "o", "o", "g", "l", "e", ".", "c", "o", "m">>
S_google ==
    <<"g", "o", "o", "g", "l", "e", ".", "c", "o", "m">>
S_www_google ==
    <<"w", "w", "w", ".", "g", "o", "o", "g", "l", "e", ".", "c", "o", "m">>
S_api_google ==
    <<"a", "p", "i", ".", "g", "o", "o", "g", "l", "e", ".", "c", "o", "m">>
S_google_evil ==
    <<"g", "o", "o", "g", "l", "e", ".", "c", "o", "m", ".", "e", "v", "i", "l", ".", "c", "o", "m">>
S_port443 ==
    <<":", "4", "4", "3">>
S_port8080 ==
    <<":", "8", "0", "8", "0">>

---------------------------------------------------------------------------
(* Values that fill the variables a specification does not use *)

NoPolicy == Policy__init__("default", None, None, FALSE)
NoResult == PolicyViolation(FALSE, "", <<>>, "")
NoData == [k \in {} |-> None]
PolicyFile == "policy.json"
FileNames == {PolicyFile}
NoFiles == [f \in FileNames |-> Missing]

---------------------------------------------------------------------------
(* SpecMatchFile: _match_file_pattern applied to every path and pattern    *)

\* the documented examples, with every bounded path put under /home/user/
FileExamples ==
    ({S_home_user_file, S_home_user_subdir, S_home_user_subdir_file,
      S_home_other_file}
     \cup {S_home_user_dir \o p : p \in Strings(PathChars, MaxPathLen)})
    \X {S_home_user_star, S_home_user_dstar}

InitMatchFile ==
    /\ \E pair \in (Strings(PathChars, MaxPathLen)
                     \X Strings(PathChars, MaxPatLen)) \cup FileExamples :
          resource = pair[1] /\ pattern = pair[2]
    /\ op = "none"
    /\ result = FALSE
    /\ policy = NoPolicy /\ policy0 = NoPolicy
    /\ files = NoFiles /\ data = NoData

MatchFile ==
    /\ op = "none"
    /\ op' = "_match_file_pattern"
    /\ result' = _match_file_pattern(resource, pattern)
    /\ UNCHANGED <<policy, policy0, files, data, resource, pattern>>

NextMatchFile == MatchFile

SpecMatchFile == InitMatchFile /\ [][NextMatchFile]_vars

---------------------------------------------------------------------------
(* SpecMatchDomain: _match_domain applied to every domain and pattern      *)

\* the documented examples
DomainExamples ==
    {S_google, S_www_google, S_api_google, S_google_evil} \X {S_star_google}

InitMatchDomain ==
    /\ \E pair \in (Strings(DomainChars, MaxDomainLen)
                     \X Strings(DomainChars, MaxDomPatLen)) \cup DomainExamples :
          resource = pair[1] /\ pattern = pair[2]
    /\ op = "none"
    /\ result = FALSE
    /\ policy = NoPolicy /\ policy0 = NoPolicy
    /\ files = NoFiles /\ data = NoData

MatchDomain ==
    /\ op = "none"
    /\ op' = "_match_domain"
    /\ result' = _match_domain(resource, pattern)
    /\ UNCHANGED <<policy, policy0, files, data, resource, pattern>>

NextMatchDomain == MatchDomain

SpecMatchDomain == InitMatchDomain /\ [][NextMatchDomain]_vars

---------------------------------------------------------------------------
(* SpecEngine: a caller builds a Policy, wraps it in a PolicyEngine and    *)
(* calls the two checks in any order, any number of times                  *)

\* the lists of at most n patterns over the given patterns
Lists(pats, n) == UNION {[1..k -> pats] : k \in 0..n}

EngFilePatterns == Strings(EngFilePatChars, EngPatLen)
EngDomPatterns == Strings(EngDomPatChars, EngPatLen)
EngPaths == Strings(EngPathChars, EngPathLen)
EngTargets == Strings(EngTargetChars, EngTargetLen)

\* a list of file patterns and a list of domain patterns that hold at most
\* MaxPatterns patterns together
PatternListPairs ==
    UNION {[1..i -> EngFilePatterns] \X Lists(EngDomPatterns, MaxPatterns - i) :
              i \in 0..MaxPatterns}

InitEngine ==
    /\ \E pair \in PatternListPairs, strict \in BOOLEAN :
          policy = Policy__init__("default", List(pair[1]), List(pair[2]), strict)
    /\ policy0 = policy
    /\ op = "none"
    /\ resource = <<>>
    /\ result = NoResult
    /\ pattern = <<>>
    /\ files = NoFiles /\ data = NoData

CheckFileAccess ==
    \E path \in EngPaths :
        LET r == check_file_access(policy, path)
        IN  /\ policy' = r.self
            /\ result' = r.ret
            /\ op' = "check_file_access"
            /\ resource' = path
            /\ UNCHANGED <<policy0, files, data, pattern>>

CheckNetworkAccess ==
    \E target \in EngTargets :
        LET r == check_network_access(policy, target)
        IN  /\ policy' = r.self
            /\ result' = r.ret
            /\ op' = "check_network_access"
            /\ resource' = target
            /\ UNCHANGED <<policy0, files, data, pattern>>

NextEngine == CheckFileAccess \/ CheckNetworkAccess

SpecEngine == InitEngine /\ [][NextEngine]_vars

---------------------------------------------------------------------------
(* The policies a caller builds and the records a policy file may hold     *)

PolicyNames == {"default", "p"}

\* the pairs of list values, where a side may also be one of the values in
\* empties (None for an Optional[List[str]] argument)
ListValuePairs(empties) ==
    {<<List(pair[1]), List(pair[2])>> : pair \in PatternListPairs}
    \cup (empties \X {List(l) : l \in Lists(EngDomPatterns, MaxPatterns)})
    \cup ({List(l) : l \in Lists(EngFilePatterns, MaxPatterns)} \X empties)
    \cup (empties \X empties)

\* a key that the record does not have
Absent == [type |-> "absent"]

MkDict(name, allowed_file_paths, allowed_domains, strict) ==
    LET full == [name |-> name, allowed_file_paths |-> allowed_file_paths,
                 allowed_domains |-> allowed_domains, strict |-> strict]
    IN  [k \in {k \in DOMAIN full : full[k].type # "absent"} |-> full[k]]

\* dicts with any of the four keys; name of any type, the lists lists of
\* str or None, strict a bool
Records ==
    {MkDict(name, pair[1], pair[2], strict) :
        name \in {Absent, None, PyInt("123")} \cup {Str(n) : n \in PolicyNames},
        pair \in ListValuePairs({Absent, None}),
        strict \in {Absent, Bool(TRUE), Bool(FALSE)}}

---------------------------------------------------------------------------
(* SpecPolicy: a caller builds a Policy, turns it into a record and back,  *)
(* saves it and loads it                                                   *)

InitPolicy ==
    /\ \E name \in PolicyNames, pair \in ListValuePairs({None}),
          strict \in BOOLEAN :
          policy = Policy__init__(name, pair[1], pair[2], strict)
    /\ policy0 = policy
    /\ files = NoFiles
    /\ op = "none"
    /\ result = NoResult
    /\ resource = <<>> /\ pattern = <<>> /\ data = NoData

ToDictFromDict ==
    /\ data' = to_dict(policy)
    /\ result' = from_dict(to_dict(policy))
    /\ op' = "from_dict"
    /\ UNCHANGED <<policy, policy0, files, resource, pattern>>

Save ==
    /\ files' = save(policy, PolicyFile, files)
    /\ op' = "save"
    /\ UNCHANGED <<policy, policy0, data, resource, pattern, result>>

Load ==
    /\ result' = load(PolicyFile, files)
    /\ op' = "load"
    /\ UNCHANGED <<policy, policy0, files, data, resource, pattern>>

NextPolicy == ToDictFromDict \/ Save \/ Load

SpecPolicy == InitPolicy /\ [][NextPolicy]_vars

---------------------------------------------------------------------------
(* SpecFromDict: Policy.from_dict applied to every record                  *)

InitFromDict ==
    /\ data \in Records
    /\ op = "none"
    /\ result = NoResult
    /\ policy = NoPolicy /\ policy0 = NoPolicy
    /\ files = NoFiles
    /\ resource = <<>> /\ pattern = <<>>

FromDict ==
    /\ op = "none"
    /\ result' = from_dict(data)
    /\ op' = "from_dict"
    /\ UNCHANGED <<policy, policy0, files, data, resource, pattern>>

NextFromDict == FromDict

SpecFromDict == InitFromDict /\ [][NextFromDict]_vars

---------------------------------------------------------------------------
(* SpecCli: main run on a policy file of any content, any number of times  *)

FileContents ==
    {Missing, NotJson, JsonArray} \cup {JsonObject(json_dump(d)) : d \in Records}

\* nargs="+" gives None or a non-empty list
InitArgs ==
    {pair \in ListValuePairs({None}) :
        pair[1] # List(<<>>) /\ pair[2] # List(<<>>)}

InitCli ==
    /\ files \in [FileNames -> FileContents]
    /\ op = "none"
    /\ result = NoResult
    /\ policy = NoPolicy /\ policy0 = NoPolicy
    /\ resource = <<>> /\ pattern = <<>> /\ data = NoData

Run(args) ==
    LET r == main(args, files)
    IN  /\ files' = r.fs
        /\ result' = r.out
        /\ op' = args.command
        /\ UNCHANGED <<policy, policy0, data, resource, pattern>>

CmdInit ==
    \E name \in PolicyNames, pair \in InitArgs :
        Run([command |-> "init", output |-> PolicyFile, name |-> name,
             allowed_paths |-> pair[1], allowed_domains |-> pair[2]])

CmdCheckFile ==
    \E path \in EngPaths :
        Run([command |-> "check", policy |-> PolicyFile,
             resource_type |-> "file", resource |-> path])

CmdCheckNetwork ==
    \E target \in EngTargets :
        Run([command |-> "check", policy |-> PolicyFile,
             resource_type |-> "network", resource |-> target])

CmdValidate == Run([command |-> "validate", policy |-> PolicyFile])

CmdList == Run([command |-> "list", policy |-> PolicyFile])

NextCli == CmdInit \/ CmdCheckFile \/ CmdCheckNetwork \/ CmdValidate \/ CmdList

SpecCli == InitCli /\ [][NextCli]_vars

---------------------------------------------------------------------------
(* Notions the claims are stated in, defined apart from the model's own    *)
(* string operations                                                       *)

\* q is a prefix of s
IsPrefix(q, s) == \E n \in 0..Len(s) : q = SubSeq(s, 1, n)

\* q is a suffix of s
IsSuffix(q, s) == \E n \in 0..Len(s) : q = SubSeq(s, n + 1, Len(s))

\* every character of s from position i to position j is c
AllAre(s, i, j, c) == \A k \in i..j : s[k] = c

\* the pattern without its trailing '*' characters and then without its
\* trailing '/' characters: the one prefix q of pat that does not end in
\* '/', is followed only by '/'s and then '*'s, and does not end in '*'
\* when no '/' follows it
LiteralPrefix(pat) ==
    CHOOSE q \in {SubSeq(pat, 1, n) : n \in 0..Len(pat)} :
        /\ q = <<>> \/ q[Len(q)] # "/"
        /\ \E j \in Len(q)..Len(pat) :
              /\ AllAre(pat, Len(q) + 1, j, "/")
              /\ AllAre(pat, j + 1, Len(pat), "*")
              /\ j = Len(q) => (q = <<>> \/ q[Len(q)] # "*")

\* the text of pat before its first '**'
BeforeFirstDoubleStar(pat) ==
    LET i == CHOOSE i \in 1..(Len(pat) - 1) :
                 /\ pat[i] = "*" /\ pat[i + 1] = "*"
                 /\ \A j \in 1..(i - 1) : ~(pat[j] = "*" /\ pat[j + 1] = "*")
    IN  SubSeq(pat, 1, i - 1)

\* classic glob, by the set of pattern positions that can be reached:
\* position i means the first i characters of pat are used up
GlobClosure(pat, S) ==
    {j \in 0..Len(pat) : \E i \in S : i <= j /\ AllAre(pat, i + 1, j, "*")}

GlobStep(pat, S, c) ==
    {j \in 0..Len(pat) :
        \E i \in S :
            \/ j = i /\ i >= 1 /\ pat[i] = "*"
            \/ j = i + 1 /\ pat[j] \in {"?", c} /\ pat[j] # "*"}

RECURSIVE GlobRun(_, _, _, _)
GlobRun(pat, name, k, S) ==
    IF k > Len(name) THEN GlobClosure(pat, S)
    ELSE GlobRun(pat, name, k + 1,
                 GlobStep(pat, GlobClosure(pat, S), name[k]))

Glob(name, pat) == Len(pat) \in GlobRun(pat, name, 1, {0})

\* the part of a target before its first ':'
HostPart(target) ==
    CHOOSE d \in {SubSeq(target, 1, n) : n \in 0..Len(target)} :
        /\ \A k \in 1..Len(d) : d[k] # ":"
        /\ d = target \/ target[Len(d) + 1] = ":"

---------------------------------------------------------------------------
(* Claims *)

\* C1: check_file_access(path) returns allowed=True with an empty reason
\* exactly when allowed_file_paths is non-empty and some pattern of it
\* matches path under _match_file_pattern; otherwise allowed=False with
\* reason "No file paths allowed in policy" for the empty list and "Path not
\* allowed" otherwise; resource_type is "file" and resource_path is path.
C1_FileDecision ==
    op = "check_file_access" =>
        LET pats == policy.allowed_file_paths
            hit == \E i \in 1..Len(pats) : _match_file_pattern(resource, pats[i])
        IN  /\ result.resource_type = "file"
            /\ result.resource_path = resource
            /\ result.allowed = (pats # <<>> /\ hit)
            /\ result.reason = IF pats = <<>>
                               THEN "No file paths allowed in policy"
                               ELSE IF hit THEN "" ELSE "Path not allowed"

\* C1 witness: a path allowed by the second pattern and not by the first
C1_Witness ==
    /\ op = "check_file_access"
    /\ Len(policy.allowed_file_paths) = 2
    /\ ~_match_file_pattern(resource, policy.allowed_file_paths[1])
    /\ _match_file_pattern(resource, policy.allowed_file_paths[2])
    /\ result.allowed

\* C2: check_network_access(target) decides on the part of target before
\* its first ':' only: allowed=True with an empty reason exactly when
\* allowed_domains is non-empty and some pattern matches that part, else
\* denied with "No domains allowed in policy" (empty list) or "Domain not
\* allowed"; host, host:443 and host:8080 get the same allowed value, and
\* resource_path is the target as given, port included.
C2_NetworkDecision ==
    op = "check_network_access" =>
        LET pats == policy.allowed_domains
            domain == HostPart(resource)
            hit == \E i \in 1..Len(pats) : _match_domain(domain, pats[i])
        IN  /\ result.resource_type = "network"
            /\ result.resource_path = resource
            /\ result.allowed = (pats # <<>> /\ hit)
            /\ result.reason = IF pats = <<>>
                               THEN "No domains allowed in policy"
                               ELSE IF hit THEN "" ELSE "Domain not allowed"
            /\ check_network_access(policy, resource \o S_port443).ret.allowed
                   = result.allowed
            /\ check_network_access(policy, resource \o S_port8080).ret.allowed
                   = result.allowed
            /\ check_network_access(policy, domain).ret.allowed
                   = result.allowed

\* C2 witness: a target with a port is allowed
C2_Witness ==
    /\ op = "check_network_access"
    /\ \E k \in 2..Len(resource) : resource[k] = ":"
    /\ resource[1] # ":"
    /\ result.allowed
    /\ result.resource_path = resource

\* C3: for a pattern with '*' and without '**', _match_file_pattern(path,
\* pattern) is true exactly when path starts with the pattern stripped of
\* its trailing '*'s and then of its trailing '/'s; path separators do not
\* bound the match: "/home/user/*" matches "/home/user/file.txt",
\* "/home/user/subdir" and "/home/user/subdir/file.txt".
C3_SingleStarIsPrefix ==
    /\ (/\ op = "_match_file_pattern"
        /\ \E k \in 1..Len(pattern) : pattern[k] = "*"
        /\ \A k \in 1..(Len(pattern) - 1) :
               ~(pattern[k] = "*" /\ pattern[k + 1] = "*"))
       => (result = IsPrefix(LiteralPrefix(pattern), resource))
    /\ (/\ op = "_match_file_pattern"
        /\ pattern = S_home_user_star
        /\ resource \in {S_home_user_file, S_home_user_subdir,
                          S_home_user_subdir_file})
       => result

\* C3 witness: "/home/user/*" matches "/home/user/subdir/file.txt"
C3_Witness ==
    /\ op = "_match_file_pattern"
    /\ pattern = S_home_user_star
    /\ resource = S_home_user_subdir_file
    /\ result

\* C4: for a pattern with '**', _match_file_pattern(path, pattern) is true
\* exactly when path starts with the text of the pattern before its first
\* '**' or path matches the whole pattern as a classic glob; "/home/user/**"
\* matches every path under /home/user/ and not "/home/other/file.txt".
C4_DoubleStarPrefixOrGlob ==
    /\ (/\ op = "_match_file_pattern"
        /\ \E k \in 1..(Len(pattern) - 1) :
               pattern[k] = "*" /\ pattern[k + 1] = "*")
       => (result = (\/ IsPrefix(BeforeFirstDoubleStar(pattern), resource)
                     \/ Glob(resource, pattern)))
    /\ (/\ op = "_match_file_pattern"
        /\ pattern = S_home_user_dstar)
       => (/\ IsPrefix(S_home_user_dir, resource) => result
           /\ resource = S_home_other_file => ~result)

\* C4 witness: a '**' pattern matches as a glob a path that does not start
\* with the text before the '**'
C4_Witness ==
    /\ op = "_match_file_pattern"
    /\ \E k \in 1..(Len(pattern) - 1) : pattern[k] = "*" /\ pattern[k + 1] = "*"
    /\ ~IsPrefix(BeforeFirstDoubleStar(pattern), resource)
    /\ result

\* C5 (as claimed): for a pattern "*." + base, _match_domain(domain,
\* pattern) is true exactly when domain equals base or ends with "." + base;
\* "*.google.com" matches the apex and its subdomains and never
\* "google.com.evil.com".
C5_WildcardIsSubdomain ==
    /\ (/\ op = "_match_domain"
        /\ Len(pattern) >= 2 /\ pattern[1] = "*" /\ pattern[2] = ".")
       => LET base == SubSeq(pattern, 3, Len(pattern))
          IN  result = (resource = base \/ IsSuffix(<<".">> \o base, resource))
    /\ (/\ op = "_match_domain"
        /\ pattern = S_star_google)
       => (/\ resource \in {S_google, S_www_google, S_api_google} => result
           /\ resource = S_google_evil => ~result)

\* C6: round trip: for a constructed Policy p, from_dict(p.to_dict())
\* succeeds and gives a policy with p's name, allowed_file_paths,
\* allowed_domains and strict; so does load after save.
C6_RoundTrip ==
    (\/ op = "from_dict"
     \/ op = "load" /\ files[PolicyFile].kind # "missing")
    => /\ result.ok
       /\ result.value.name = policy.name
       /\ result.value.allowed_file_paths = policy.allowed_file_paths
       /\ result.value.allowed_domains = policy.allowed_domains
       /\ result.value.strict = policy.strict

\* C6 witness: a strict policy with a pattern in each list, loaded back
\* from the file it was saved to
C6_Witness ==
    /\ op = "load"
    /\ files[PolicyFile].kind = "json_object"
    /\ policy.strict
    /\ policy.allowed_file_paths # <<>>
    /\ policy.allowed_domains # <<>>
    /\ result.ok

\* C7: from_dict(record) fails with a validation error whose message names
\* the actual type of the value exactly when the record has a "name" that
\* is not a string, and then produces no Policy; for every other record it
\* succeeds, with name "default", empty lists and strict false for the keys
\* that are missing.
C7_FromDictValidation ==
    op = "from_dict" =>
        IF "name" \in DOMAIN data /\ data["name"].type # "str"
        THEN /\ ~result.ok
             /\ "value" \notin DOMAIN result
             /\ result.error = "ValueError"
             /\ result.message[Len(result.message)] = data["name"].type
        ELSE /\ result.ok
             /\ "name" \notin DOMAIN data => result.value.name = "default"
             /\ "allowed_file_paths" \notin DOMAIN data
                    => result.value.allowed_file_paths = <<>>
             /\ "allowed_domains" \notin DOMAIN data
                    => result.value.allowed_domains = <<>>
             /\ "strict" \notin DOMAIN data => result.value.strict = FALSE

\* C7 witness: {"name": 123} is rejected with a message that says int
C7_Witness ==
    /\ op = "from_dict"
    /\ "name" \in DOMAIN data
    /\ data["name"] = PyInt("123")
    /\ ~result.ok
    /\ result.message[Len(result.message)] = "int"

\* C8 (as claimed): check, validate and list each answer a policy file that
\* fails to load (missing, not JSON, or rejected by from_dict) with a
\* non-zero exit code and a message; no such error leaves main uncaught.
C8_LoadFailureHandled ==
    (/\ op \in {"check", "validate", "list"}
     /\ ~load(PolicyFile, files).ok)
    => /\ result.kind = "exit"
       /\ result.code # 0
       /\ result.text # <<>>

\* C9: strict changes no decision: the policy that differs from the
\* engine's only in strict gives the same result (allowed, reason,
\* resource_type, resource_path) for the path or target just checked.
C9_StrictIgnored ==
    LET other == [policy EXCEPT !.strict = ~policy.strict]
    IN  /\ op = "check_file_access"
           => result = check_file_access(other, resource).ret
        /\ op = "check_network_access"
           => result = check_network_access(other, resource).ret

\* C9 witness: a strict policy allows a path that a pattern matches without
\* being equal to it
C9_Witness ==
    /\ op = "check_file_access"
    /\ policy.strict
    /\ result.allowed
    /\ \A i \in 1..Len(policy.allowed_file_paths) :
           policy.allowed_file_paths[i] # resource

\* C10: the engine is stateless: after any sequence of checks the policy's
\* name, allowed_file_paths, allowed_domains and strict are those the engine
\* was built with, and every call returns what the check gives for the
\* policy as built and the resource, whatever was called before.
C10_Stateless ==
    /\ policy.name = policy0.name
    /\ policy.allowed_file_paths = policy0.allowed_file_paths
    /\ policy.allowed_domains = policy0.allowed_domains
    /\ policy.strict = policy0.strict
    /\ op = "check_file_access"
       => result = check_file_access(policy0, resource).ret
    /\ op = "check_network_access"
       => result = check_network_access(policy0, resource).ret

\* C10 witness: an allowed file check on a policy that also lists domains
C10_Witness ==
    /\ op = "check_file_access"
    /\ result.allowed
    /\ policy.allowed_domains # <<>>
    /\ policy = policy0

\* the orderings of a list: every list with the same patterns, each as often
Orderings(s) ==
    {[i \in 1..Len(s) |-> s[f[i]]] :
        f \in {g \in [1..Len(s) -> 1..Len(s)] :
                  \A i, j \in 1..Len(s) : g[i] = g[j] => i = j}}

\* C11: the order of the patterns in an allow-list changes no outcome: every
\* policy whose allowed_file_paths (allowed_domains) is a permutation of the
\* engine's gives the same allowed value and the same reason for the path
\* (target) just checked.
C11_OrderIrrelevant ==
    /\ op = "check_file_access"
       => \A perm \in Orderings(policy.allowed_file_paths) :
             LET r == check_file_access(
                          [policy EXCEPT !.allowed_file_paths = perm],
                          resource).ret
             IN  r.allowed = result.allowed /\ r.reason = result.reason
    /\ op = "check_network_access"
       => \A perm \in Orderings(policy.allowed_domains) :
             LET r == check_network_access(
                          [policy EXCEPT !.allowed_domains = perm],
                          resource).ret
             IN  r.allowed = result.allowed /\ r.reason = result.reason

\* C11 witness: a target allowed by the second of two domain patterns and not
\* by the first, so the loop passes a non-matching pattern before it allows
C11_Witness ==
    /\ op = "check_network_access"
    /\ Len(policy.allowed_domains) = 2
    /\ ~_match_domain(HostPart(resource), policy.allowed_domains[1])
    /\ _match_domain(HostPart(resource), policy.allowed_domains[2])
    /\ result.allowed

\* the decimal digits '0' through '9'
DecimalDigits == {"0", "1", "2", "3", "4", "5", "6", "7", "8", "9"}

\* C12 (as claimed): _match_domain strips any trailing ':' and then all
\* trailing decimal digits from the pattern; for a pattern that does not
\* start with "*.", with S its stripped form, the match is true exactly when
\* domain equals S or domain starts with S + ":".
C12_StripsTrailingDigits ==
    (/\ op = "_match_domain"
     /\ ~StartsWith(pattern, <<"*", ".">>))
    => LET S == RStrip(RStrip(pattern, {":"}), DecimalDigits)
       IN  result = (resource = S \/ StartsWith(resource, S \o <<":">>))

====
